---- MODULE Spec2Model ----
(***************************************************************************)
(* State-machine model of the Faktory client (class Client): the socket,   *)
(* the reply queue, the handshake, the command surface, close and the      *)
(* reconnect logic, together with the server side of the byte stream.      *)
(*                                                                         *)
(* One action is one run-to-completion step of the JavaScript event loop:  *)
(* a caller's call (connect, close, an operation) or a socket event        *)
(* ('connect', 'data', 'error', 'close', the reconnect timer) together     *)
(* with the promise continuations it makes runnable.                       *)
(***************************************************************************)
EXTENDS Integers, Sequences, FiniteSets, TLC

\* ---------------------------------------------------------------- bounds
\* Number of caller operations (push, fetch, ...) issued in one behaviour.
MaxOps == 2
\* options.reconnectLimit is drawn from 0..MaxLimitOption (0: absent or 0).
MaxLimitOption == 1
\* Error stacks passed to fail() have 1..MaxStackLines lines.
MaxStackLines == 102
\* A salted greeting asks for 0..MaxIterations hash iterations (0: absent).
MaxIterations == 4

\* ------------------------------------------------------ program constants
RECONNECT_DELAY == 2000
RECONNECT_LIMIT == 2
FAKTORY_PROTOCOL_VERSION == 2

\* ------------------------------------------------------------ input sets
\* Protocol versions a server may announce in its greeting.
ServerVersions == {2, 3}
\* Verbs of the command surface the caller uses (beat, info and flush go
\* through the same send() and are left out).
Verbs == {"PUSH", "FETCH", "ACK", "FAIL"}
\* Frames a server may answer a command with:
\*   OK      +OK                    TXT     +<another status line>
\*   BULK    $n {json}              BADJSON $n {not json
\*   NULL    $-1 (null bulk)        ERR     -<message>
ReplyTypes == {"OK", "TXT", "BULK", "BADJSON", "NULL", "ERR"}

\* Tags of reply-queue entries and of frames (which entry a frame answers).
SAYHELLO == -1      \* the handshake continuation / the greeting frame
HELLO == 0          \* the HELLO command written by the handshake
OpIds == 1..MaxOps  \* caller operations

VARIABLES
    client,      \* the Client object: flags, counters, socket, reply queue
    c2s,         \* commands written to the socket, not yet read by the server
    s2c,         \* frames sent by the server, not yet parsed by the client
    verb,        \* the operation of the command surface the caller uses
    job,         \* the job the caller passes to push (its jid also to fail)
    e,           \* the error the caller passes to fail
    ops,         \* the promise of each caller operation
    hs,          \* position of the onConnect/handshake/sayHello async chain
    helloReply,  \* type of the frame that settled the last HELLO
    closeCalled, \* history: caller close() relative to the last connect()
    lost,        \* history: an established session was lost unexpectedly
    fatal,       \* an exception escaped a socket event handler
    timedOut     \* the 'timeout' handler has logged an idle timeout

vars == <<client, c2s, s2c, verb, job, e, ops, hs, helloReply, closeCalled, lost, fatal, timedOut>>

\* ------------------------------------------------------------ the socket
\* net.Socket as the client observes it:
\*   new      constructed, never connected          (writable = false)
\*   opening  socket.connect() called               (writable = true, buffered)
\*   open     'connect' emitted                     (writable = true)
\*   closing  ended or destroyed, 'close' pending   (writable = false)
\*   closed   'close' emitted                       (writable = false)
SocketStates == {"new", "opening", "open", "closing", "closed"}

writable(c) == c.socket \in {"opening", "open"}

\* ------------------------------------------------------- constructor
ReconnectLimitOf(opt) == IF opt = 0 THEN RECONNECT_LIMIT ELSE opt

NewPromise == [st |-> "none", err |-> "none"]

Client(opt) ==
    [ options             |-> [reconnectLimit |-> opt],
      password            |-> "undefined",
      labels              |-> <<>>,
      wid                 |-> "undefined",
      reconnectLimit      |-> ReconnectLimitOf(opt),
      reconnectDelay      |-> RECONNECT_DELAY,
      reconnectAttempts   |-> 0,
      replyQueue          |-> <<>>,
      socket              |-> "new",
      connecting          |-> FALSE,
      connected           |-> FALSE,
      closing             |-> FALSE,
      lastConnectionError |-> "none",
      timer               |-> 0,
      promise             |-> NewPromise ]

NewOp == [st |-> "new", val |-> "none", from |-> -2]

\* ------------------------------------------------- the caller's arguments
\* job.jid: "undefined" when the job has no jid property, else the string.
Jids == {"undefined", "", "j1"}

Jobs == [jid : Jids]

\* e.stack as a string (a sequence of characters) of n lines of w letters
\* each, joined by newlines; the lines alternate between two letters.
StackTrace(n, w) ==
    [p \in 1..(n * (w + 1) - 1) |->
        IF p % (w + 1) = 0 THEN "\n"
        ELSE IF (p \div (w + 1)) % 2 = 0 THEN "a" ELSE "b"]

Errors == {[stack |-> StackTrace(n, w)] : n \in 1..MaxStackLines, w \in 0..1}

Init ==
    /\ \E opt \in 0..MaxLimitOption : client = Client(opt)
    /\ c2s = <<>>
    /\ s2c = <<>>
    /\ verb \in Verbs
    /\ job \in (IF verb = "PUSH" THEN Jobs ELSE {[jid |-> "j1"]})
    /\ e = [stack |-> StackTrace(2, 1)]
    /\ ops = [i \in OpIds |-> NewOp]
    /\ hs = "idle"
    /\ helloReply = "none"
    /\ closeCalled = "never"
    /\ lost = FALSE
    /\ fatal = FALSE
    /\ timedOut = FALSE

\* ------------------------------------------------- the connect() promise
onConnectResolve(c) ==
    IF c.promise.st = "pending"
    THEN [c EXCEPT !.promise = [st |-> "resolved", err |-> "none"]]
    ELSE c

onConnectReject(c, err) ==
    IF c.promise.st = "pending"
    THEN [c EXCEPT !.promise = [st |-> "rejected", err |-> err]]
    ELSE c

\* --------------------------------------------------------------- close()
\* closing = true; END is written when the socket is writable; the socket
\* is ended and, unless already destroyed, destroyed.  `emits` says whether
\* destroying a socket that never had a handle emits 'close' (it depends on
\* the runtime version).
close(c, emits) ==
    [c EXCEPT !.closing = TRUE,
              !.socket = CASE c.socket \in {"opening", "open"} -> "closing"
                           [] c.socket = "new" ->
                                 IF emits THEN "closing" ELSE "closed"
                           [] OTHER -> c.socket]

\* ------------------------------------------------------------- onError()
\* (variant: the pending connect() is not told)
onErrorUnreported(c, err) == close([c EXCEPT !.lastConnectionError = err], FALSE)

onError(c, err) ==
    LET r == IF c.connecting THEN onConnectReject(c, err) ELSE c
    IN  close([r EXCEPT !.lastConnectionError = err], FALSE)

\* ------------------------------------------------------ clearReplyQueue()
clearReplyQueue(c) == [c EXCEPT !.replyQueue = <<>>]

\* ------------------------------------------------------------ _connect()
\* socket.connect(port, host): the socket becomes writable at once and
\* buffers what is written until 'connect'.
_connect(c) == [c EXCEPT !.socket = "opening"]

\* --------------------------------------------- the reconnect timer's body
\* (variant: the timer reconnects without looking at the closing flag)
timerCallbackUnguarded(c) == _connect([c EXCEPT !.timer = 0])

timerCallback(c) ==
    LET c1 == [c EXCEPT !.timer = 0]
    IN  IF ~c1.closing THEN _connect(c1) ELSE c1

\* ------------------------------------------------------------- onClose()
\* (variant: the same delay before every attempt)
delayConstant(c) == c.reconnectDelay

\* const delay = this.reconnectDelay * this.reconnectAttempts
delay(c) == c.reconnectDelay * c.reconnectAttempts

\* (variant: an unexpected close counts two attempts)
onCloseByTwo(c) ==
    LET c1 == clearReplyQueue([c EXCEPT !.connected = FALSE, !.socket = "closed"])
    IN  IF c1.closing
        THEN [c1 EXCEPT !.closing = FALSE]
        ELSE IF c1.reconnectAttempts < c1.reconnectLimit
        THEN LET c2 == [c1 EXCEPT !.reconnectAttempts = @ + 2]
             IN  [c2 EXCEPT !.timer = delay(c2)]
        ELSE c1

\* (variant: onClose without the closing flag)
onCloseUnflagged(c) ==
    LET c1 == clearReplyQueue([c EXCEPT !.connected = FALSE, !.socket = "closed"])
    IN  IF c1.reconnectAttempts < c1.reconnectLimit
        THEN LET c2 == [c1 EXCEPT !.reconnectAttempts = @ + 1]
             IN  [c2 EXCEPT !.timer = delay(c2)]
        ELSE c1

onClose(c) ==
    LET c1 == clearReplyQueue([c EXCEPT !.connected = FALSE, !.socket = "closed"])
    IN  IF c1.closing
        THEN [c1 EXCEPT !.closing = FALSE]
        ELSE IF c1.reconnectAttempts < c1.reconnectLimit
        THEN LET c2 == [c1 EXCEPT !.reconnectAttempts = @ + 1]
             IN  [c2 EXCEPT !.timer = delay(c2)]
        ELSE LET err == IF c1.lastConnectionError # "none"
                        THEN c1.lastConnectionError
                        ELSE "exhausted"
             IN  IF c1.connecting
                 THEN onConnectReject(c1, err)
                 ELSE onError(c1, err)

\* -------------------------------------------------------------- connect()
connect(c) ==
    _connect([c EXCEPT !.connecting = TRUE,
                       !.promise = [st |-> "pending", err |-> "none"]])

\* ------------------------------------------------------------ handshake()
\* Registers sayHello as the continuation of the next inbound frame.
handshake(c) == [c EXCEPT !.replyQueue = Append(@, SAYHELLO)]

\* ------------------------------------------------- frames and Client.parse
\* HI {"v":v}: a greeting without salt.
Greeting(v) == [type |-> "HI", for |-> SAYHELLO, v |-> v, s |-> "undefined", i |-> 0]

\* HI {"v":v,"s":s,"i":i}: the greeting of a server that asks for a password.
SaltedGreeting(v, s, i) == [Greeting(v) EXCEPT !.s = s, !.i = i]

Reply(t, id) == [type |-> t, for |-> id, v |-> -1]

\* What the parser hands to receive(): the reply string by its features.
Data(f) ==
    LET none == [s |-> "undefined", i |-> 0]
    IN  CASE f.type = "HI"      -> [lead |-> "HI ", json |-> TRUE,  line |-> "HI",   v |-> f.v,
                                    salt |-> [s |-> f.s, i |-> f.i]]
          [] f.type = "BULK"    -> [lead |-> "{",   json |-> TRUE,  line |-> "{",    v |-> -1, salt |-> none]
          [] f.type = "BADJSON" -> [lead |-> "{",   json |-> FALSE, line |-> "{",    v |-> -1, salt |-> none]
          [] f.type = "OK"      -> [lead |-> "",    json |-> FALSE, line |-> "OK",   v |-> -1, salt |-> none]
          [] OTHER              -> [lead |-> "",    json |-> FALSE, line |-> "NOPE", v |-> -1, salt |-> none]

Undefined == [err |-> "none", kind |-> "undefined", text |-> "undefined",
              payload |-> "undefined", v |-> -1, s |-> "undefined", i |-> 0]

\* Client.parse(data): a thrown JSON.parse error is kind "threw".
parse(d) ==
    IF d.lead = "HI "
    THEN IF d.json
         THEN [Undefined EXCEPT !.kind = "resp", !.text = "HI",
                                !.payload = "object", !.v = d.v,
                                !.s = d.salt.s, !.i = d.salt.i]
         ELSE [Undefined EXCEPT !.kind = "threw"]
    ELSE IF d.lead = "{"
    THEN IF d.json
         THEN [Undefined EXCEPT !.kind = "resp", !.payload = "object", !.v = d.v]
         ELSE [Undefined EXCEPT !.kind = "threw"]
    ELSE [Undefined EXCEPT !.kind = "resp", !.text = d.line]

\* (variant: the error frame is handed on without its error)
receiveErrorDropped(f) == Undefined

\* The (err, resp) pair receive() / receiveError() call the head entry with.
receiveError(f) == [Undefined EXCEPT !.err = "server"]

\* (variant: receive without the try/catch around Client.parse)
receiveUncaught(f) ==
    IF f.type = "NULL"
    THEN [Undefined EXCEPT !.kind = "null"]
    ELSE parse(Data(f))

receive(f) ==
    IF f.type = "NULL"
    THEN [Undefined EXCEPT !.kind = "null"]
    ELSE LET r == parse(Data(f))
         IN  IF r.kind = "threw" THEN [Undefined EXCEPT !.err = "parse"] ELSE r

CallbackArgs(f) == IF f.type = "ERR" THEN receiveError(f) ELSE receive(f)

\* ------------------------------------------------------- Client.checkVersion
checkVersion(version) == version = FAKTORY_PROTOCOL_VERSION

\* ------------------------------------------------------------ Client.hash
\* SHA-256 and the hex encoding as free constructors: a digest is the
\* record of what was hashed; pwd + salt is the record of the two strings.
plus(pwd, salt) == [pwd |-> pwd, salt |-> salt]

sha256(data) == [sha256 |-> data]

hex(digest) == [hex |-> digest]

\* The for loop: for (let i = 1; i < iterations; i += 1) hash = sha256(hash.digest())
RECURSIVE hashLoop(_, _, _)
hashLoop(h, i, iterations) ==
    IF i < iterations THEN hashLoop(sha256(h), i + 1, iterations) ELSE h

\* (variant: the loop counts from 0)
hashFromZero(pwd, salt, iterations) ==
    hex(hashLoop(sha256(plus(pwd, salt)), 0, iterations))

hash(pwd, salt, iterations) ==
    hex(hashLoop(sha256(plus(pwd, salt)), 1, iterations))

\* -------------------------------------------------------------- buildHello
\* os.hostname() and process.pid.
hostname == "host"

pid == "pid"

\* (variant: pid and wid are always added)
buildHelloAlwaysWid(c, greeting) ==
    IF greeting.s \in {"undefined", ""}
    THEN [hostname |-> hostname, labels |-> c.labels, v |-> FAKTORY_PROTOCOL_VERSION,
          pid |-> pid, wid |-> c.wid]
    ELSE [hostname |-> hostname, labels |-> c.labels, v |-> FAKTORY_PROTOCOL_VERSION,
          pid |-> pid, wid |-> c.wid,
          pwdhash |-> hash(c.password, greeting.s, greeting.i)]

\* The HELLO payload: hostname, labels and v; pid and wid when this.wid is
\* set (truthy); pwdhash when the greeting has a (truthy) salt.
buildHello(c, greeting) ==
    LET noWid == c.wid \in {"undefined", ""}
        noSalt == greeting.s \in {"undefined", ""}
    IN  CASE noWid /\ noSalt ->
               [hostname |-> hostname, labels |-> c.labels, v |-> FAKTORY_PROTOCOL_VERSION]
          [] ~noWid /\ noSalt ->
               [hostname |-> hostname, labels |-> c.labels, v |-> FAKTORY_PROTOCOL_VERSION,
                pid |-> pid, wid |-> c.wid]
          [] noWid /\ ~noSalt ->
               [hostname |-> hostname, labels |-> c.labels, v |-> FAKTORY_PROTOCOL_VERSION,
                pwdhash |-> hash(c.password, greeting.s, greeting.i)]
          [] OTHER ->
               [hostname |-> hostname, labels |-> c.labels, v |-> FAKTORY_PROTOCOL_VERSION,
                pid |-> pid, wid |-> c.wid,
                pwdhash |-> hash(c.password, greeting.s, greeting.i)]

\* ----------------------------------------------------------------- sayHello
\* (variant: the greeting's version is not checked)
sayHelloUnchecked(args) ==
    IF args.kind # "resp" THEN "typeError"
    ELSE IF args.payload = "undefined" THEN "typeError"
    ELSE "hello"

\* The async continuation of the greeting.  An exception inside it rejects
\* only the promise the async function returns, which nobody observes:
\*   typeError   destructuring { payload } of undefined/null, or greeting.v
\*               of an undefined payload
\*   badVersion  Client.checkVersion threw
\*   hello       HELLO is sent
sayHello(args) ==
    IF args.kind # "resp" THEN "typeError"
    ELSE IF args.payload = "undefined" THEN "typeError"
    ELSE IF ~checkVersion(args.v) THEN "badVersion"
    ELSE "hello"

\* ------------------------------------------------------------ send / _send
Expectation(vb) ==
    IF vb \in {"HELLO", "PUSH", "ACK", "FAIL"} THEN "OK" ELSE "none"

\* uuid(): a version-4 UUID in its 36-character text form.
uuid == "xxxxxxxx-xxxx-4xxx-yxxx-xxxxxxxxxxxx"

\* The length of the strings a jid can be.
StrLen(str) ==
    CASE str = ""   -> 0
      [] str = "j1" -> 2
      [] str = uuid -> 36
      [] OTHER      -> 0

\* (variant: the job's own jid is returned whatever it is)
jidOfJob(j) == j.jid

\* push: const jid = job.jid || uuid()   (undefined and '' are falsy)
jidOf(j) == IF j.jid \in {"undefined", ""} THEN uuid ELSE j.jid

\* push: const payload = Object.assign({ jid }, job): a jid property of the
\* job, when there is one, replaces the generated one.
pushPayload(j) == [jid |-> IF j.jid = "undefined" THEN jidOf(j) ELSE j.jid]

\* String.prototype.split(sep) for a one-character separator: the pieces
\* between the separators, in order.  The string is cut at the separator
\* nearest after its middle (else the last one before it) and the two
\* halves are split in turn.
RECURSIVE split(_, _)
split(str, sep) ==
    IF \A k \in 1..Len(str) : str[k] # sep
    THEN <<str>>
    ELSE LET mid == (Len(str) + 1) \div 2
             k == IF \E i \in mid..Len(str) : str[i] = sep
                  THEN CHOOSE i \in mid..Len(str) :
                           str[i] = sep /\ \A j \in mid..(i - 1) : str[j] # sep
                  ELSE CHOOSE i \in 1..(mid - 1) :
                           str[i] = sep /\ \A j \in (i + 1)..(mid - 1) : str[j] # sep
         IN  split(SubSeq(str, 1, k - 1), sep) \o split(SubSeq(str, k + 1, Len(str)), sep)

\* (variant: slice without its end)
sliceToEnd(arr, begin, end) == SubSeq(arr, begin + 1, Len(arr))

\* Array.prototype.slice(begin, end) for 0 <= begin <= end.
slice(arr, begin, end) ==
    SubSeq(arr, begin + 1, IF end > Len(arr) THEN Len(arr) ELSE end)

\* fail: the object sent with FAIL (message and errtype left out).
failPayload(jid, err) ==
    [jid |-> jid, backtrace |-> slice(split(err.stack, "\n"), 0, 100)]

NoPayload == [none |-> TRUE]

Payload(vb) ==
    CASE vb = "PUSH" -> pushPayload(job)
      [] vb = "FAIL" -> failPayload(job.jid, e)
      [] OTHER       -> NoPayload

Cmd(vb, id) == [verb |-> vb, id |-> id, payload |-> Payload(vb)]

\* (variant: the continuation is registered twice)
_sendRegisteredTwice(c, w, cmd) ==
    [threw |-> FALSE,
     c |-> [c EXCEPT !.replyQueue = Append(Append(@, cmd.id), cmd.id)],
     w |-> Append(w, cmd)]

\* (variant: the command is written and no continuation registered)
_sendUnregistered(c, w, cmd) == [threw |-> FALSE, c |-> c, w |-> Append(w, cmd)]

\* _send: write the encoded command, then register the continuation.
_send(c, w, cmd) ==
    [threw |-> FALSE,
     c |-> [c EXCEPT !.replyQueue = Append(@, cmd.id)],
     w |-> Append(w, cmd)]

\* (variant: send without the writable check)
sendUnchecked(c, w, cmd) == _send(c, w, cmd)

\* send up to its await: refuses when the socket is not writable.
send(c, w, cmd) ==
    IF ~writable(c)
    THEN [threw |-> TRUE, c |-> c, w |-> w]
    ELSE _send(c, w, cmd)

\* (variant: send without the expectation check)
sendSettledUnasserted(args, expectation) ==
    IF args.err # "none"
    THEN [st |-> "rejected", val |-> args.err]
    ELSE [st |-> "resolved", val |-> args.kind]

\* send after its await: the promise of send() given the continuation's
\* arguments and the expectation.
sendSettled(args, expectation) ==
    IF args.err # "none"
    THEN [st |-> "rejected", val |-> args.err]
    ELSE IF /\ expectation # "none"
            /\ args.kind = "resp"
            /\ args.text # "undefined"
            /\ args.text # expectation
    THEN [st |-> "rejected", val |-> "assert"]
    ELSE [st |-> "resolved", val |-> args.kind]

\* ------------------------------------------------------ the command surface
\* What each operation makes of a resolved send().
TypeError == [st |-> "rejected", val |-> "TypeError"]

Resolved(v) == [st |-> "resolved", val |-> v]

push(args) == Resolved(jidOf(job))

\* (variant: push assigns the jid to the caller's job)
pushJobAssigned(j) == [j EXCEPT !.jid = jidOf(j)]

\* The caller's job object after push(job): Object.assign({ jid }, job)
\* copies into a new object and leaves job as it was.
pushJob(j) == j

\* (variant: fetch reads the payload of whatever it got)
fetchPayload(args) == Resolved(args.payload)

fetch(args) == IF args.kind = "null" THEN Resolved("null") ELSE Resolved(args.payload)

ack(args) == IF args.kind = "null" THEN TypeError ELSE Resolved(args.text)

fail(args) == IF args.kind = "null" THEN TypeError ELSE Resolved(args.text)

OpSettled(vb, args) ==
    LET s == sendSettled(args, Expectation(vb))
    IN  IF s.st = "rejected" THEN s
        ELSE CASE vb = "PUSH"    -> push(args)
               [] vb = "FETCH"   -> fetch(args)
               [] vb = "ACK"     -> ack(args)
               [] OTHER          -> fail(args)

\* -------------------------------------------- onConnect after the handshake
\* (variant: the attempt counter is kept)
onConnectKeepCount(c) ==
    onConnectResolve([c EXCEPT !.connecting = FALSE, !.connected = TRUE])

onConnect(c) ==
    onConnectResolve([c EXCEPT !.connecting = FALSE,
                               !.connected = TRUE,
                               !.reconnectAttempts = 0])

\* ======================================================== caller actions
\* The caller calls connect().  Callers connect a socket that is neither
\* connecting nor open and has no reconnect timer or 'close' event pending.
Connect ==
    /\ ~fatal
    /\ client.socket \in {"new", "closed"}
    /\ client.timer = 0
    /\ client' = connect(client)
    /\ closeCalled' = IF closeCalled = "never" THEN "never" ELSE "before"
    /\ lost' = FALSE
    /\ UNCHANGED <<c2s, s2c, verb, job, e, ops, hs, helloReply, fatal, timedOut>>

\* The caller calls close().
Close ==
    /\ ~fatal
    /\ \E emits \in (IF client.socket = "new" THEN BOOLEAN ELSE {FALSE}) :
          client' = close(client, emits)
    /\ c2s' = IF writable(client) THEN Append(c2s, Cmd("END", -3)) ELSE c2s
    /\ s2c' = <<>>
    /\ closeCalled' = "sinceConnect"
    /\ lost' = FALSE
    /\ UNCHANGED <<verb, job, e, ops, hs, helloReply, fatal, timedOut>>

\* The next caller operation not yet issued.
NextOp == CHOOSE i \in OpIds : ops[i].st = "new" /\ \A j \in OpIds : j < i => ops[j].st # "new"

\* The caller calls the operation: push / fetch / ack / fail.
Invoke ==
    /\ ~fatal
    /\ \E i \in OpIds : ops[i].st = "new"
    /\ LET i == NextOp
           r == send(client, c2s, Cmd(verb, i))
       IN  /\ client' = r.c
           /\ c2s' = r.w
           /\ ops' = [ops EXCEPT ![i] =
                        IF r.threw
                        THEN [st |-> "rejected", val |-> "not writable", from |-> -2]
                        ELSE [st |-> "pending", val |-> "none", from |-> -2]]
    /\ job' = IF verb = "PUSH" THEN pushJob(job) ELSE job
    /\ UNCHANGED <<s2c, verb, e, hs, helloReply, closeCalled, lost, fatal, timedOut>>

\* ===================================================== socket events
\* 'connect': onConnect starts the handshake; the server (speaking version
\* v, asking for no password) sends its greeting.
SocketConnect(v) ==
    /\ ~fatal
    /\ client.socket = "opening"
    /\ client' = handshake([client EXCEPT !.socket = "open"])
    /\ s2c' = <<Greeting(v)>>
    /\ hs' = "greeting"
    /\ helloReply' = "none"
    /\ UNCHANGED <<c2s, verb, job, e, ops, closeCalled, lost, fatal, timedOut>>

\* 'connect' to a server that asks for a password hashed with salt s.
SocketConnectSalted(s, i) ==
    /\ ~fatal
    /\ client.socket = "opening"
    /\ client' = handshake([client EXCEPT !.socket = "open"])
    /\ s2c' = <<SaltedGreeting(FAKTORY_PROTOCOL_VERSION, s, i)>>
    /\ hs' = "greeting"
    /\ helloReply' = "none"
    /\ UNCHANGED <<c2s, verb, job, e, ops, closeCalled, lost, fatal, timedOut>>

\* 'error' (refused, reset, ...): the socket is destroyed, 'error' is
\* emitted and 'close' follows.
SocketError ==
    /\ ~fatal
    /\ client.socket \in {"opening", "open"}
    /\ client' = onError([client EXCEPT !.socket = "closing"], "ECONN")
    /\ c2s' = <<>>
    /\ s2c' = <<>>
    /\ lost' = FALSE
    /\ UNCHANGED <<verb, job, e, ops, hs, helloReply, closeCalled, fatal, timedOut>>

\* The peer ends the connection: the socket stops being writable and
\* 'close' follows.
ServerClose ==
    /\ ~fatal
    /\ client.socket = "open"
    /\ client' = [client EXCEPT !.socket = "closing"]
    /\ c2s' = <<>>
    /\ s2c' = <<>>
    /\ lost' = FALSE
    /\ UNCHANGED <<verb, job, e, ops, hs, helloReply, closeCalled, fatal, timedOut>>

\* An established session ends without the caller having called close()
\* since connect(), with reconnect budget left.
UnexpectedLoss ==
    /\ client.connected
    /\ closeCalled # "sinceConnect"
    /\ client.reconnectAttempts < client.reconnectLimit

\* 'close': onClose.  The continuations still queued are dropped with the
\* queue, and with them the handshake chain of the session.
CloseEvent ==
    /\ ~fatal
    /\ client.socket = "closing"
    /\ client' = onClose(client)
    /\ c2s' = <<>>
    /\ s2c' = <<>>
    /\ hs' = "idle"
    /\ helloReply' = "none"
    /\ lost' = UnexpectedLoss
    /\ UNCHANGED <<verb, job, e, ops, closeCalled, fatal, timedOut>>

\* The reconnect timer fires.
TimerFire ==
    /\ ~fatal
    /\ client.timer # 0
    /\ client' = timerCallback(client)
    /\ UNCHANGED <<c2s, s2c, verb, job, e, ops, hs, helloReply, closeCalled, lost, fatal, timedOut>>

\* 'data': the parser hands frame f to receive() / receiveError(), which
\* shifts the head of the reply queue and calls it; w is what is left for
\* the server to read.
Deliver(f, w) ==
    LET args == CallbackArgs(f)
        q == client.replyQueue
    IN  IF q = <<>>
        THEN \* receive throws, receiveError calls undefined
             /\ fatal' = TRUE
             /\ c2s' = w
             /\ UNCHANGED <<client, ops, hs, helloReply, lost>>
        ELSE LET h == Head(q)
                 c1 == [client EXCEPT !.replyQueue = Tail(q)]
             IN  /\ fatal' = FALSE
                 /\ IF h = SAYHELLO
                    THEN LET out == sayHello(args)
                             hello == buildHello(c1, args)
                             r == send(c1, w, [Cmd("HELLO", HELLO) EXCEPT !.payload = hello])
                         IN  /\ IF out = "hello"
                                THEN client' = r.c /\ c2s' = r.w
                                ELSE client' = c1 /\ c2s' = w
                             /\ hs' = out
                             /\ lost' = (lost /\ out = "hello")
                             /\ UNCHANGED <<ops, helloReply>>
                    ELSE IF h = HELLO
                    THEN LET s == sendSettled(args, Expectation("HELLO"))
                         IN  /\ IF s.st = "resolved"
                                THEN client' = onConnect(c1) /\ hs' = "done"
                                ELSE client' = c1 /\ hs' = "rejected"
                             /\ helloReply' = f.type
                             /\ lost' = FALSE
                             /\ c2s' = w
                             /\ UNCHANGED ops
                    ELSE LET s == OpSettled(verb, args)
                         IN  /\ client' = c1
                             /\ ops' = [ops EXCEPT ![h].st = s.st,
                                                   ![h].val = s.val,
                                                   ![h].from = f.for]
                             /\ c2s' = w
                             /\ UNCHANGED <<hs, helloReply, lost>>

\* The greeting arrives.
DataGreeting ==
    /\ ~fatal
    /\ client.socket = "open"
    /\ s2c # <<>>
    /\ s2c' = Tail(s2c)
    /\ Deliver(Head(s2c), c2s)
    /\ UNCHANGED <<verb, job, e, closeCalled, timedOut>>

\* The server reads the next command and answers it with a frame of type
\* t, which arrives.
DataReply(t) ==
    /\ ~fatal
    /\ client.socket = "open"
    /\ s2c = <<>>
    /\ c2s # <<>>
    /\ s2c' = s2c
    /\ Deliver(Reply(t, Head(c2s).id), Tail(c2s))
    /\ UNCHANGED <<verb, job, e, closeCalled, timedOut>>

\* (variant: the idle timeout closes the connection)
onTimeoutClose(c) == close(c, FALSE)

\* The 'timeout' handler: it logs and touches nothing of the client.
onTimeout(c) == c

\* 'timeout': the socket was idle for SOCKET_TIMEOUT ms.
SocketTimeout ==
    /\ ~fatal
    /\ client.socket \in {"opening", "open"}
    /\ client' = onTimeout(client)
    /\ timedOut' = TRUE
    /\ UNCHANGED <<c2s, s2c, verb, job, e, ops, hs, helloReply, closeCalled, lost, fatal>>

\* The server sends a frame of type t although the client has no command
\* outstanding and no continuation queued.
DataUnsolicited(t) ==
    /\ ~fatal
    /\ client.socket = "open"
    /\ s2c = <<>>
    /\ c2s = <<>>
    /\ client.replyQueue = <<>>
    /\ s2c' = s2c
    /\ Deliver(Reply(t, -4), c2s)
    /\ UNCHANGED <<verb, job, e, closeCalled, timedOut>>

Next ==
    \/ Connect
    \/ Close
    \/ Invoke
    \/ \E v \in ServerVersions : SocketConnect(v)
    \/ SocketError
    \/ ServerClose
    \/ CloseEvent
    \/ TimerFire
    \/ DataGreeting
    \/ \E t \in ReplyTypes : DataReply(t)
    \/ \E t \in ReplyTypes : DataUnsolicited(t)

Spec == Init /\ [][Next]_vars

\* ------------------------------------------------ fail() over error stacks
\* A caller that connects to a server speaking the client's protocol and
\* calls fail(jid, e) with errors whose stacks have 1..MaxStackLines lines.
InitFail ==
    /\ client = Client(0)
    /\ c2s = <<>>
    /\ s2c = <<>>
    /\ verb = "FAIL"
    /\ job = [jid |-> "j1"]
    /\ e \in Errors
    /\ ops = [i \in OpIds |-> NewOp]
    /\ hs = "idle"
    /\ helloReply = "none"
    /\ closeCalled = "never"
    /\ lost = FALSE
    /\ fatal = FALSE
    /\ timedOut = FALSE

NextFail ==
    \/ Connect
    \/ Invoke
    \/ SocketConnect(FAKTORY_PROTOCOL_VERSION)
    \/ DataGreeting
    \/ DataReply("OK")

SpecFail == InitFail /\ [][NextFail]_vars

\* -------------------------------------------- handshake with a password
\* Clients configured with a password connect to servers whose greeting
\* carries a salt and 0..MaxIterations iterations.
Passwords == {"p1", "p2"}

Salts == {"", "s1", "s2"}

\* options.wid ("undefined": not set) and options.labels.
Wids == {"undefined", "w1"}

Labels == {<<>>, <<"l1", "l2">>}

InitHello ==
    /\ \E pw \in Passwords, wid \in Wids, labels \in Labels :
          client = [Client(0) EXCEPT !.password = pw, !.wid = wid, !.labels = labels]
    /\ c2s = <<>>
    /\ s2c = <<>>
    /\ verb = "FETCH"
    /\ job = [jid |-> "j1"]
    /\ e = [stack |-> StackTrace(2, 1)]
    /\ ops = [i \in OpIds |-> NewOp]
    /\ hs = "idle"
    /\ helloReply = "none"
    /\ closeCalled = "never"
    /\ lost = FALSE
    /\ fatal = FALSE
    /\ timedOut = FALSE

NextHello ==
    \/ Connect
    \/ Invoke
    \/ \E s \in Salts, i \in 0..MaxIterations : SocketConnectSalted(s, i)
    \/ DataGreeting
    \/ DataReply("OK")

SpecHello == InitHello /\ [][NextHello]_vars

\* ------------------------------------------------- sessions that go idle
\* A caller fetching from a server that may leave the socket idle and may
\* close the connection.
InitTimeout ==
    /\ client = Client(0)
    /\ c2s = <<>>
    /\ s2c = <<>>
    /\ verb = "FETCH"
    /\ job = [jid |-> "j1"]
    /\ e = [stack |-> StackTrace(2, 1)]
    /\ ops = [i \in OpIds |-> NewOp]
    /\ hs = "idle"
    /\ helloReply = "none"
    /\ closeCalled = "never"
    /\ lost = FALSE
    /\ fatal = FALSE
    /\ timedOut = FALSE

NextTimeout ==
    \/ Connect
    \/ Close
    \/ Invoke
    \/ SocketConnect(FAKTORY_PROTOCOL_VERSION)
    \/ SocketTimeout
    \/ ServerClose
    \/ CloseEvent
    \/ TimerFire
    \/ DataGreeting
    \/ DataReply("OK")

SpecTimeout == InitTimeout /\ [][NextTimeout]_vars

\* ================================================================ claims
InQueue(i) == \E k \in 1..Len(client.replyQueue) : client.replyQueue[k] = i

\* This step writes a command other than close()'s END to the socket.
Wrote ==
    /\ c2s' # c2s
    /\ Len(c2s') >= Len(c2s)
    /\ c2s'[Len(c2s')].verb # "END"

NotWritableRejected(i) == ops[i].st = "rejected" /\ ops[i].val = "not writable"

\* C1: FIFO correspondence.  Every operation that a frame has resumed was
\* resumed by the frame that answers its own command, never by the frame
\* of another command or by the greeting.
C1_FifoCorrespondence ==
    \A i \in OpIds : ops[i].from # -2 => ops[i].from = i

\* C2: drain on disconnect.  When the socket's 'close' is handled, every
\* operation whose continuation is queued is rejected with a
\* connection-lost error and the queue is empty afterwards.
C2_DrainOnClose ==
    [][(client.socket = "closing" /\ client'.socket = "closed") =>
          /\ client'.replyQueue = <<>>
          /\ \A i \in OpIds : InQueue(i) =>
                ops'[i].st = "rejected" /\ ops'[i].val = "connection lost"]_vars

\* C3: every registered continuation is invoked exactly once, never
\* dropped: an operation that is still pending has its continuation in the
\* reply queue (exactly once), so a frame or a close can still settle it.
C3_NeverDropped ==
    \A i \in OpIds : ops[i].st = "pending" =>
        Cardinality({k \in 1..Len(client.replyQueue) : client.replyQueue[k] = i}) = 1

\* C4: no command is written unless the engine is Connected, except HELLO
\* while handshaking: a caller operation whose command is written in a
\* step was issued on an open socket after the handshake completed, and
\* HELLO is written on an open socket only.
C4_WriteOnlyConnected ==
    [][/\ \A i \in OpIds : (ops[i].st = "new" /\ ops'[i].st = "pending") =>
              (client.connected /\ client.socket = "open")
       /\ (~InQueue(HELLO) /\ InQueue(HELLO)') => client.socket = "open"]_vars

\* C5: an operation invoked while the socket is not writable is rejected
\* with 'Socket not writable', writes nothing and leaves the reply queue
\* as it was.
C5_NotWritableRefused ==
    [][\A i \in OpIds : (ops[i].st = "new" /\ ops'[i].st # "new" /\ ~writable(client)) =>
          /\ NotWritableRejected(i)'
          /\ c2s' = c2s
          /\ client'.replyQueue = client.replyQueue]_vars

\* C5 witness: an operation was refused during a reconnect delay.
C5_Witness ==
    /\ \E i \in OpIds : NotWritableRejected(i)
    /\ client.socket = "closed"
    /\ client.timer # 0

C7_ReconnectInProgress ==
    lost => (client.timer # 0 \/ client.socket \in {"opening", "open"})

\* C8: a greeting with another protocol version rejects the pending
\* connect() with a version-mismatch error.
C8_VersionMismatchRejects ==
    (hs = "badVersion" /\ client.connecting) =>
        (client.promise.st = "rejected" /\ client.promise.err = "version")

\* C9: a reply to HELLO that is not OK rejects the pending connect() and
\* closes the socket.
C9_HelloRefusedRejects ==
    (hs = "rejected" /\ client.connecting) =>
        (client.promise.st = "rejected" /\ client.socket \notin {"opening", "open"})

\* C10: the engine is Connected only when the frame that answered its
\* HELLO is the inline status OK.
C10_ConnectedOnlyOnOK ==
    client.connected => helloReply = "OK"

\* The continuation at the head of the reply queue is operation i's.
HeadIs(i) == client.replyQueue # <<>> /\ Head(client.replyQueue) = i

\* The client as it is after exactly the head of the reply queue is shifted.
HeadShifted == [client EXCEPT !.replyQueue = Tail(@)]

\* C11: expectation mismatch is isolated.  On an established connection,
\* when the operation at the head of the queue expects OK and is answered
\* with another status line, it alone is rejected with the assertion error, exactly the head entry is
\* consumed, everything else of the client (the other entries and their
\* order, the connection state) is unchanged; and an operation answered
\* with OK after another was rejected that way resolves, resumed by the
\* reply to its own command.
C11_MismatchIsolated ==
    [][\A i \in OpIds :
         /\ ( /\ client.connected
              /\ DataReply("TXT") /\ HeadIs(i) /\ Expectation(verb) = "OK" ) =>
               /\ ops'[i].st = "rejected" /\ ops'[i].val = "assert"
               /\ \A j \in OpIds \ {i} : ops'[j] = ops[j]
               /\ client' = HeadShifted
               /\ ~fatal'
         /\ ( /\ client.connected
              /\ DataReply("OK") /\ HeadIs(i)
              /\ \E j \in OpIds : ops[j].st = "rejected" /\ ops[j].val = "assert" ) =>
               /\ ops'[i].st = "resolved" /\ ops'[i].from = i
               /\ client' = HeadShifted]_vars

\* C11 witness: on an established connection the first operation was
\* rejected for its status line and the second resolved with its own reply.
C11_Witness ==
    /\ client.connected
    /\ ops[1].st = "rejected" /\ ops[1].val = "assert" /\ ops[1].from = 1
    /\ ops[2].st = "resolved" /\ ops[2].from = 2

\* C12: a server error frame rejects only the operation at the head of the
\* queue: exactly the head entry is removed, every other operation and the
\* rest of the client (queue order, connection state) is unchanged.
C12_ErrorFrameIsolated ==
    [][(DataReply("ERR") /\ client.replyQueue # <<>>) =>
          /\ client' = HeadShifted
          /\ ~fatal'
          /\ \A i \in OpIds :
                IF HeadIs(i)
                THEN ops'[i].st = "rejected" /\ ops'[i].val = "server"
                ELSE ops'[i] = ops[i]]_vars

\* C12 witness: the first operation was rejected by an error frame while
\* the second is still queued on the established connection.
C12_Witness ==
    /\ client.connected
    /\ ops[1].st = "rejected" /\ ops[1].val = "server" /\ ops[1].from = 1
    /\ ops[2].st = "pending" /\ InQueue(2)

\* C13: a frame that arrives while the reply queue is empty is discarded
\* and poisons the session: the socket is closed (and the close handler
\* then reconnects), no exception escapes.
C13_EmptyQueuePoisons ==
    [][(client.replyQueue = <<>> /\ \E t \in ReplyTypes : DataUnsolicited(t)) =>
          /\ ~fatal'
          /\ client'.socket = "closing"]_vars

\* C14: a fetch answered with the null bulk resolves with null; exactly
\* the head entry is consumed and the rest of the client (the other
\* entries, the connection state) is unchanged.
C14_FetchNull ==
    [][\A i \in OpIds :
         (DataReply("NULL") /\ HeadIs(i) /\ verb = "FETCH") =>
            /\ ops'[i].st = "resolved" /\ ops'[i].val = "null"
            /\ \A j \in OpIds \ {i} : ops'[j] = ops[j]
            /\ client' = HeadShifted
            /\ ~fatal']_vars

\* C14 witness: on an established connection the first fetch resolved with
\* null while the second is still queued.
C14_Witness ==
    /\ verb = "FETCH"
    /\ client.connected
    /\ ops[1].st = "resolved" /\ ops[1].val = "null" /\ ops[1].from = 1
    /\ ops[2].st = "pending" /\ InQueue(2)

\* C15: a push that resolved did so with a non-empty jid: the job's own
\* jid when the caller supplied one (a non-empty string), else a generated
\* identifier of length >= 8.
C15_PushJid ==
    \A i \in OpIds :
        (verb = "PUSH" /\ ops[i].st = "resolved") =>
            /\ StrLen(ops[i].val) > 0
            /\ job.jid \notin {"undefined", ""} => ops[i].val = job.jid
            /\ job.jid \in {"undefined", ""} =>
                  (ops[i].val = uuid /\ StrLen(ops[i].val) >= 8)

\* C15 witness: a push of a job without jid resolved, resumed by the reply
\* to its own command on an established connection.
C15_Witness ==
    /\ verb = "PUSH"
    /\ job.jid = "undefined"
    /\ client.connected /\ helloReply = "OK"
    /\ ops[1].st = "resolved" /\ ops[1].from = 1 /\ ops[1].val = uuid

\* The socket's 'close' is about to be handled as an unexpected close with
\* the reconnect budget used up.
BudgetExhausted ==
    /\ client.socket = "closing"
    /\ ~client.closing
    /\ client.reconnectAttempts >= client.reconnectLimit

\* C16: the attempt counter never exceeds the limit; an unexpected close
\* with the budget used up arms no timer and leaves the socket closed, and
\* it rejects the pending connect() if there is one and otherwise raises a
\* fatal error.
C16_BudgetExhausted ==
    [][/\ client'.reconnectAttempts <= client'.reconnectLimit
       /\ (BudgetExhausted /\ CloseEvent) =>
             /\ client'.timer = 0
             /\ client'.socket = "closed"
             /\ IF client.connecting
                THEN client.promise.st = "pending" => client'.promise.st = "rejected"
                ELSE fatal']_vars

\* C17: while connected the reconnect attempt counter is zero.
C17_ConnectedResetsAttempts ==
    client.connected => client.reconnectAttempts = 0

\* C17 witness: connected again after a reconnect.  The caller never
\* closed and no socket error occurred, yet an operation of the earlier
\* session lost its continuation: that session ended unexpectedly and the
\* timer reconnected.
C17_Witness ==
    /\ client.connected
    /\ client.reconnectAttempts = 0
    /\ closeCalled = "never"
    /\ client.lastConnectionError = "none"
    /\ \E i \in OpIds : ops[i].st = "pending" /\ ~InQueue(i)

C19_ConnectErrorRejects ==
    [][(SocketError /\ client.socket = "opening" /\ client.promise.st = "pending") =>
          client'.promise = [st |-> "rejected", err |-> "ECONN"]]_vars

\* C19 witness: connect() was rejected with the connection error of a
\* socket that never opened ('close' not yet handled).
C19_Witness ==
    /\ client.promise = [st |-> "rejected", err |-> "ECONN"]
    /\ client.socket = "closing"
    /\ hs = "idle"
    /\ client.reconnectAttempts = 0

\* The number of lines of a string: its newlines plus one.
NumLines(str) == Cardinality({k \in 1..Len(str) : str[k] = "\n"}) + 1

Min(a, b) == IF a < b THEN a ELSE b

\* C20: the backtrace of every FAIL command written has
\* min(lines of e.stack, 100) entries, never more than 100, and is the
\* prefix of the lines of e.stack in their order.
C20_BacktraceTruncated ==
    \A k \in 1..Len(c2s) :
        c2s[k].verb = "FAIL" =>
            LET bt == c2s[k].payload.backtrace
                lines == split(e.stack, "\n")
            IN  /\ Len(bt) = Min(NumLines(e.stack), 100)
                /\ Len(bt) <= 100
                /\ \A j \in 1..Len(bt) : bt[j] = lines[j]

\* C20 witness: a FAIL command was written for an error whose stack has
\* more than 100 lines.
C20_Witness ==
    /\ NumLines(e.stack) > 100
    /\ \E k \in 1..Len(c2s) :
          c2s[k].verb = "FAIL" /\ Len(c2s[k].payload.backtrace) = 100

\* The command written last.
LastWritten == c2s'[Len(c2s')]

\* This step writes HELLO.
HelloWritten == Wrote /\ LastWritten.verb = "HELLO"

\* n rounds of SHA-256 over pwd || salt: the first hashes the two strings,
\* every further one the raw digest of the round before.
RECURSIVE Rounds(_, _, _)
Rounds(pwd, salt, n) ==
    IF n <= 1 THEN sha256(plus(pwd, salt)) ELSE sha256(Rounds(pwd, salt, n - 1))

\* C21: the pwdhash of the HELLO written in answer to a greeting with salt
\* s and iteration count i >= 1 is the hex form of i rounds of H over
\* password || s (one round for i = 1, i - 1 further rounds over the raw
\* digest for i > 1).
C21_PasswordHash ==
    [][HelloWritten =>
          LET g == Head(s2c)
          IN  (g.s \notin {"undefined", ""} /\ g.i >= 1) =>
                 LastWritten.payload.pwdhash = hex(Rounds(client.password, g.s, g.i))]_vars

\* C21 witness: HELLO was written with three rounds over "p1" || "s1".
C21_Witness ==
    \E k \in 1..Len(c2s) :
        /\ c2s[k].verb = "HELLO"
        /\ "pwdhash" \in DOMAIN c2s[k].payload
        /\ c2s[k].payload.pwdhash = hex(sha256(sha256(sha256(plus("p1", "s1")))))

\* C22 as stated: while the socket is writable the length of the reply
\* queue is the number of commands written whose reply is not yet consumed.
C22_QueueLengthIsWritten ==
    writable(client) => Len(client.replyQueue) = Len(c2s)

\* C22 as amended: while the socket is writable the length of the reply
\* queue is the number of commands written whose reply is not yet
\* consumed, plus one from the socket's 'connect', when the handshake
\* registers its continuation, until the greeting is consumed: one entry
\* for every frame still to come.
C22_QueueLength ==
    writable(client) => Len(client.replyQueue) = Len(c2s) + Len(s2c)

\* C22 witness: two operations issued on an established connection before
\* any reply: the queue has length two.
C22_Witness ==
    /\ client.connected
    /\ hs = "done"
    /\ ops[1].st = "pending" /\ ops[2].st = "pending"
    /\ Len(client.replyQueue) = 2

\* Operation i is a push whose command this step writes.
PushWritten(i) ==
    /\ verb = "PUSH"
    /\ ops[i].st = "new" /\ ops'[i].st = "pending"

\* C23 as stated: a push of a job without jid leaves the generated jid,
\* the one push returns, in the caller's job.
C23_PushAssignsJid ==
    [][\A i \in OpIds :
         (PushWritten(i) /\ job.jid = "undefined") => job'.jid = jidOf(job)]_vars

\* C23 as amended: push leaves the caller's job as it was; the generated
\* jid, the one push returns, is in the payload written.
C23_PushCopiesJob ==
    [][\A i \in OpIds :
         PushWritten(i) =>
            /\ job' = job
            /\ job.jid = "undefined" => LastWritten.payload.jid = jidOf(job)
            /\ job.jid = "undefined" => push(Undefined).val = jidOf(job)]_vars

\* C23 witness: the push of a job without jid resolved with the generated
\* jid, a second push carrying it is written, and the job still has none.
C23_Witness ==
    /\ verb = "PUSH"
    /\ job.jid = "undefined"
    /\ ops[1].st = "resolved" /\ ops[1].val = uuid
    /\ ops[2].st = "pending"
    /\ c2s # <<>> /\ c2s[Len(c2s)].payload.jid = uuid

\* C24: an ack or fail that resolved did so with 'OK'.
C24_AckFailOnlyOK ==
    \A i \in OpIds :
        (verb \in {"ACK", "FAIL"} /\ ops[i].st = "resolved") => ops[i].val = "OK"

\* C25: when the 'close' of a socket that failed to connect (a socket
\* error before it opened, close() not called) is handled with budget
\* left, a reconnect is scheduled.
C25_ConnectFailureRetries ==
    [][( /\ CloseEvent
         /\ hs = "idle"
         /\ client.lastConnectionError # "none"
         /\ closeCalled # "sinceConnect"
         /\ client.reconnectAttempts < client.reconnectLimit ) =>
          client'.timer # 0]_vars

\* C26: when the socket of an established session closes, close() was not
\* called during the session and no socket error ever occurred, the close
\* is handled as unexpected: with budget left a reconnect is scheduled.
C26_UnexpectedCloseReconnects ==
    [][( /\ CloseEvent
         /\ client.connected
         /\ client.lastConnectionError = "none"
         /\ closeCalled # "sinceConnect"
         /\ client.reconnectAttempts < client.reconnectLimit ) =>
          client'.timer # 0]_vars

\* C27: the step that arms the reconnect timer counts the attempt and
\* arms it with reconnectDelay * attempts, the socket staying closed; and
\* while the delay runs the socket stays closed.
C27_LinearBackoff ==
    [][/\ (client.timer = 0 /\ client'.timer # 0) =>
             /\ client'.reconnectAttempts = client.reconnectAttempts + 1
             /\ client'.timer = client.reconnectDelay * client'.reconnectAttempts
             /\ client'.socket = "closed"
       /\ (client.timer # 0 /\ client'.timer # 0) => client'.socket = "closed"
       /\ (client.timer # 0 /\ client'.socket = "opening") => client'.timer = 0]_vars

\* C27 witness: the delay before the second consecutive attempt is armed.
C27_Witness ==
    /\ client.reconnectAttempts = 2
    /\ client.timer = 2 * RECONNECT_DELAY
    /\ client.socket = "closed"

\* C28: handshake ordering.  HELLO is written only by the handshake
\* continuation, resumed by the greeting of a session in which no HELLO
\* was written yet, and the greeting's version is the client's; the
\* HELLO continuation is resumed by the reply to HELLO; and when the
\* caller has issued no operation the greeting resumes the handshake
\* continuation.
C28_HandshakeOrdering ==
    [][/\ HelloWritten =>
             /\ hs = "greeting"
             /\ HeadIs(SAYHELLO)
             /\ s2c # <<>>
             /\ Head(s2c).type = "HI"
             /\ Head(s2c).v = FAKTORY_PROTOCOL_VERSION
       /\ ( /\ HeadIs(HELLO)
            /\ client.socket = "open" /\ client'.socket = "open"
            /\ client'.replyQueue = Tail(client.replyQueue) ) =>
             (c2s # <<>> /\ Head(c2s).verb = "HELLO")
       /\ (DataGreeting /\ \A i \in OpIds : ops[i].st = "new") =>
             HeadIs(SAYHELLO)]_vars

\* C28 witness: HELLO is written and awaits its reply, the caller having
\* issued nothing.
C28_Witness ==
    /\ hs = "hello"
    /\ client.replyQueue = <<HELLO>>
    /\ \A i \in OpIds : ops[i].st = "new"

\* C29: the step that writes a command registers its continuation: after
\* it the continuation is the last entry of the reply queue; and the step
\* in which a caller operation is written appends exactly its command and
\* its continuation and dispatches no frame.
C29_WriteRegisters ==
    [][/\ Wrote =>
             /\ client'.replyQueue # <<>>
             /\ client'.replyQueue[Len(client'.replyQueue)] = LastWritten.id
       /\ \A i \in OpIds :
             (ops[i].st = "new" /\ ops'[i].st = "pending") =>
                /\ client'.replyQueue = Append(client.replyQueue, i)
                /\ c2s' = Append(c2s, Cmd(verb, i))
                /\ s2c' = s2c
                /\ \A j \in OpIds \ {i} : ops'[j] = ops[j]]_vars

\* C29 witness: two overlapping operations, written and registered in the
\* same order.
C29_Witness ==
    /\ client.connected
    /\ client.replyQueue = <<1, 2>>
    /\ Len(c2s) = 2 /\ c2s[1].id = 1 /\ c2s[2].id = 2

\* C30: a reply whose JSON does not parse rejects the operation at the
\* head of the queue with the parse error: exactly the head entry is
\* consumed, every other operation and the rest of the client (the queue
\* order, the socket, the connection state) are unchanged; and on an
\* established connection a later OK resumes the next operation, which
\* resolves with the reply to its own command.
C30_ParseFailureIsolated ==
    [][\A i \in OpIds :
         /\ (DataReply("BADJSON") /\ HeadIs(i)) =>
               /\ ops'[i].st = "rejected" /\ ops'[i].val = "parse"
               /\ \A j \in OpIds \ {i} : ops'[j] = ops[j]
               /\ client' = HeadShifted
               /\ ~fatal'
         /\ ( /\ client.connected
              /\ DataReply("OK") /\ HeadIs(i)
              /\ \E j \in OpIds : ops[j].st = "rejected" /\ ops[j].val = "parse" ) =>
               /\ ops'[i].st = "resolved" /\ ops'[i].from = i
               /\ client' = HeadShifted]_vars

\* C30 witness: the first operation was rejected with the parse error and
\* the second resolved with its own reply on the same connection.
C30_Witness ==
    /\ client.connected
    /\ ops[1].st = "rejected" /\ ops[1].val = "parse" /\ ops[1].from = 1
    /\ ops[2].st = "resolved" /\ ops[2].from = 2

\* C31: the configured reconnect limit is honoured, 0 included: the
\* number of consecutive reconnect attempts never exceeds
\* options.reconnectLimit (with 0 no reconnect is ever scheduled).
C31_ConfiguredLimitHonoured ==
    client.reconnectAttempts <= client.options.reconnectLimit

\* C32: the jid a push resolves with is the jid of the payload written
\* with its PUSH command, whatever the job's jid (absent, a string, empty).
C32_PushJidIsPayloadJid ==
    [][\A i \in OpIds :
         PushWritten(i) => LastWritten.payload.jid = push(Undefined).val]_vars

\* The step that completes a handshake.
HandshakeCompleted == ~client.connected /\ client'.connected

\* C33: the attempt counter stays within 0..reconnectLimit; it changes
\* only when a 'close' is handled as unexpected (by exactly one) and when
\* a handshake completes (to zero).
C33_AttemptCounter ==
    [][/\ client'.reconnectAttempts \in 0..client'.reconnectLimit
       /\ client'.reconnectAttempts # client.reconnectAttempts =>
             \/ /\ CloseEvent
                /\ ~client.closing
                /\ client'.reconnectAttempts = client.reconnectAttempts + 1
             \/ /\ HandshakeCompleted
                /\ client'.reconnectAttempts = 0]_vars

\* C33 witness: a reconnect with the counter at its limit has reached the
\* handshake, whose completion will reset it.
C33_Witness ==
    /\ client.reconnectAttempts = client.reconnectLimit
    /\ client.socket = "open"
    /\ hs = "hello"

\* C34: an idle timeout of the socket changes nothing of the client (its
\* flags, reply queue, attempt counter, socket, timer) and nothing in
\* flight.
C34_TimeoutChangesNothing ==
    [][SocketTimeout => UNCHANGED <<client, c2s, s2c, ops, hs, helloReply, fatal>>]_vars

\* C34 witness: the established session with an operation pending went
\* idle and is still established, the operation still queued.
C34_Witness ==
    /\ timedOut
    /\ client.connected /\ client.socket = "open"
    /\ ops[1].st = "pending" /\ InQueue(1)

\* C35: the HELLO payload has hostname, the configured labels and v = 2;
\* pid and wid exactly when a worker id is configured, wid being that id;
\* pwdhash exactly when the greeting has a salt.
C35_HelloPayload ==
    [][HelloWritten =>
          LET p == LastWritten.payload
              g == Head(s2c)
              widSet == client.wid \notin {"undefined", ""}
              salted == g.s \notin {"undefined", ""}
          IN  /\ "hostname" \in DOMAIN p /\ p.hostname = hostname
              /\ "labels" \in DOMAIN p /\ p.labels = client.labels
              /\ "v" \in DOMAIN p /\ p.v = 2
              /\ ("pid" \in DOMAIN p) <=> widSet
              /\ ("wid" \in DOMAIN p) <=> widSet
              /\ widSet => p.wid = client.wid
              /\ ("pwdhash" \in DOMAIN p) <=> salted]_vars

\* C35 witness: HELLO was written by a client with worker id and labels
\* in answer to a salted greeting.
C35_Witness ==
    \E k \in 1..Len(c2s) :
        /\ c2s[k].verb = "HELLO"
        /\ DOMAIN c2s[k].payload = {"hostname", "labels", "v", "pid", "wid", "pwdhash"}
        /\ c2s[k].payload.wid = "w1"
        /\ c2s[k].payload.labels = <<"l1", "l2">>

====
